---- MODULE Spec2Model ----
(***************************************************************************)
(* rust-cgi (src/lib.rs): a CGI (RFC 3875) adapter.  The model covers the  *)
(* request builder (parse_request, add_header), the response serializer    *)
(* (serialize_response), the shortcut constructors (empty_response, ...)   *)
(* and the orchestrator (handle_with_io, try_handle_with_io).              *)
(*                                                                         *)
(* Strings and byte vectors are sequences of byte values (ASCII code       *)
(* points); the text of every literal is given in the comment above it.    *)
(***************************************************************************)
EXTENDS Integers, Sequences, FiniteSets, TLC

(***************************************************************************)
(* Bounds of the model.                                                    *)
(***************************************************************************)
\* largest number of meta-variables in an environment
MaxVars ==
    3
\* largest number of bytes on the input stream
MaxStdin ==
    3
\* largest number of header(name, value) calls on a response builder
MaxHeaders ==
    3

(***************************************************************************)
(* String literals of src/lib.rs.                                          *)
(***************************************************************************)
\* "HTTP_"
PFX_HTTP ==
    <<72, 84, 84, 80, 95>>
\* "REQUEST_METHOD"
K_REQUEST_METHOD ==
    <<82, 69, 81, 85, 69, 83, 84, 95, 77, 69, 84, 72, 79, 68>>
\* "SCRIPT_NAME"
K_SCRIPT_NAME ==
    <<83, 67, 82, 73, 80, 84, 95, 78, 65, 77, 69>>
\* "QUERY_STRING"
K_QUERY_STRING ==
    <<81, 85, 69, 82, 89, 95, 83, 84, 82, 73, 78, 71>>
\* "SERVER_PROTOCOL"
K_SERVER_PROTOCOL ==
    <<83, 69, 82, 86, 69, 82, 95, 80, 82, 79, 84, 79, 67, 79, 76>>
\* "CONTENT_LENGTH"
K_CONTENT_LENGTH ==
    <<67, 79, 78, 84, 69, 78, 84, 95, 76, 69, 78, 71, 84, 72>>
\* "AUTH_TYPE"
K_AUTH_TYPE ==
    <<65, 85, 84, 72, 95, 84, 89, 80, 69>>
\* "CONTENT_TYPE"
K_CONTENT_TYPE ==
    <<67, 79, 78, 84, 69, 78, 84, 95, 84, 89, 80, 69>>
\* "GATEWAY_INTERFACE"
K_GATEWAY_INTERFACE ==
    <<71, 65, 84, 69, 87, 65, 89, 95, 73, 78, 84, 69, 82, 70, 65, 67, 69>>
\* "PATH_INFO"
K_PATH_INFO ==
    <<80, 65, 84, 72, 95, 73, 78, 70, 79>>
\* "PATH_TRANSLATED"
K_PATH_TRANSLATED ==
    <<80, 65, 84, 72, 95, 84, 82, 65, 78, 83, 76, 65, 84, 69, 68>>
\* "REMOTE_ADDR"
K_REMOTE_ADDR ==
    <<82, 69, 77, 79, 84, 69, 95, 65, 68, 68, 82>>
\* "REMOTE_HOST"
K_REMOTE_HOST ==
    <<82, 69, 77, 79, 84, 69, 95, 72, 79, 83, 84>>
\* "REMOTE_IDENT"
K_REMOTE_IDENT ==
    <<82, 69, 77, 79, 84, 69, 95, 73, 68, 69, 78, 84>>
\* "REMOTE_USER"
K_REMOTE_USER ==
    <<82, 69, 77, 79, 84, 69, 95, 85, 83, 69, 82>>
\* "SERVER_PORT"
K_SERVER_PORT ==
    <<83, 69, 82, 86, 69, 82, 95, 80, 79, 82, 84>>
\* "SERVER_SOFTWARE"
K_SERVER_SOFTWARE ==
    <<83, 69, 82, 86, 69, 82, 95, 83, 79, 70, 84, 87, 65, 82, 69>>
\* "X-CGI-Auth-Type"
X_CGI_AUTH_TYPE ==
    <<88, 45, 67, 71, 73, 45, 65, 117, 116, 104, 45, 84, 121, 112, 101>>
\* "X-CGI-Content-Length"
X_CGI_CONTENT_LENGTH ==
    <<88, 45, 67, 71, 73, 45, 67, 111, 110, 116, 101, 110, 116, 45, 76, 101, 110, 103, 116, 104>>
\* "X-CGI-Content-Type"
X_CGI_CONTENT_TYPE ==
    <<88, 45, 67, 71, 73, 45, 67, 111, 110, 116, 101, 110, 116, 45, 84, 121, 112, 101>>
\* "X-CGI-Gateway-Interface"
X_CGI_GATEWAY_INTERFACE ==
    <<88, 45, 67, 71, 73, 45, 71, 97, 116, 101, 119, 97, 121, 45, 73, 110, 116, 101, 114, 102, 97, 99, 101>>
\* "X-CGI-Path-Info"
X_CGI_PATH_INFO ==
    <<88, 45, 67, 71, 73, 45, 80, 97, 116, 104, 45, 73, 110, 102, 111>>
\* "X-CGI-Path-Translated"
X_CGI_PATH_TRANSLATED ==
    <<88, 45, 67, 71, 73, 45, 80, 97, 116, 104, 45, 84, 114, 97, 110, 115, 108, 97, 116, 101, 100>>
\* "X-CGI-Query-String"
X_CGI_QUERY_STRING ==
    <<88, 45, 67, 71, 73, 45, 81, 117, 101, 114, 121, 45, 83, 116, 114, 105, 110, 103>>
\* "X-CGI-Remote-Addr"
X_CGI_REMOTE_ADDR ==
    <<88, 45, 67, 71, 73, 45, 82, 101, 109, 111, 116, 101, 45, 65, 100, 100, 114>>
\* "X-CGI-Remote-Host"
X_CGI_REMOTE_HOST ==
    <<88, 45, 67, 71, 73, 45, 82, 101, 109, 111, 116, 101, 45, 72, 111, 115, 116>>
\* "X-CGI-Remote-Ident"
X_CGI_REMOTE_IDENT ==
    <<88, 45, 67, 71, 73, 45, 82, 101, 109, 111, 116, 101, 45, 73, 100, 101, 110, 116>>
\* "X-CGI-Remote-User"
X_CGI_REMOTE_USER ==
    <<88, 45, 67, 71, 73, 45, 82, 101, 109, 111, 116, 101, 45, 85, 115, 101, 114>>
\* "X-CGI-Request-Method"
X_CGI_REQUEST_METHOD ==
    <<88, 45, 67, 71, 73, 45, 82, 101, 113, 117, 101, 115, 116, 45, 77, 101, 116, 104, 111, 100>>
\* "X-CGI-Script-Name"
X_CGI_SCRIPT_NAME ==
    <<88, 45, 67, 71, 73, 45, 83, 99, 114, 105, 112, 116, 45, 78, 97, 109, 101>>
\* "X-CGI-Server-Port"
X_CGI_SERVER_PORT ==
    <<88, 45, 67, 71, 73, 45, 83, 101, 114, 118, 101, 114, 45, 80, 111, 114, 116>>
\* "X-CGI-Server-Protocol"
X_CGI_SERVER_PROTOCOL ==
    <<88, 45, 67, 71, 73, 45, 83, 101, 114, 118, 101, 114, 45, 80, 114, 111, 116, 111, 99, 111, 108>>
\* "X-CGI-Server-Software"
X_CGI_SERVER_SOFTWARE ==
    <<88, 45, 67, 71, 73, 45, 83, 101, 114, 118, 101, 114, 45, 83, 111, 102, 116, 119, 97, 114, 101>>
\* "GET"
S_GET ==
    <<71, 69, 84>>
\* "?"
S_QMARK ==
    <<63>>
\* "HTTP/0.9"
S_HTTP_09 ==
    <<72, 84, 84, 80, 47, 48, 46, 57>>
\* "HTTP/1.0"
S_HTTP_10 ==
    <<72, 84, 84, 80, 47, 49, 46, 48>>
\* "HTTP/1.1"
S_HTTP_11 ==
    <<72, 84, 84, 80, 47, 49, 46, 49>>
\* "HTTP/2.0"
S_HTTP_20 ==
    <<72, 84, 84, 80, 47, 50, 46, 48>>
\* "Status: "
S_STATUS ==
    <<83, 116, 97, 116, 117, 115, 58, 32>>
\* " "
S_SP ==
    <<32>>
\* "\n"
S_NL ==
    <<10>>
\* ": "
S_COLON_SP ==
    <<58, 32>>
\* "content-type"
CONTENT_TYPE ==
    <<99, 111, 110, 116, 101, 110, 116, 45, 116, 121, 112, 101>>
\* "content-length"
CONTENT_LENGTH ==
    <<99, 111, 110, 116, 101, 110, 116, 45, 108, 101, 110, 103, 116, 104>>
\* "text/html; charset=utf-8"
S_TEXT_HTML ==
    <<116, 101, 120, 116, 47, 104, 116, 109, 108, 59, 32, 99, 104, 97, 114, 115, 101, 116, 61, 117, 116, 102, 45, 56>>
\* "text/plain; charset=utf-8"
S_TEXT_PLAIN ==
    <<116, 101, 120, 116, 47, 112, 108, 97, 105, 110, 59, 32, 99, 104, 97, 114, 115, 101, 116, 61, 117, 116, 102, 45, 56>>
\* "OK"
S_REASON_200 ==
    <<79, 75>>
\* "Not Found"
S_REASON_404 ==
    <<78, 111, 116, 32, 70, 111, 117, 110, 100>>
\* "Internal Server Error"
S_REASON_500 ==
    <<73, 110, 116, 101, 114, 110, 97, 108, 32, 83, 101, 114, 118, 101, 114, 32, 69, 114, 114, 111, 114>>

(***************************************************************************)
(* Values the environment, the executable path and the callers supply.    *)
(***************************************************************************)
\* "POST"
V_POST ==
    <<80, 79, 83, 84>>
\* "/cgi/app"
V_SCRIPT ==
    <<47, 99, 103, 105, 47, 97, 112, 112>>
\* "/bin/app"
V_EXE ==
    <<47, 98, 105, 110, 47, 97, 112, 112>>
\* "a=b"
V_QUERY ==
    <<97, 61, 98>>
\* "HTTP/3.0"
V_HTTP_30 ==
    <<72, 84, 84, 80, 47, 51, 46, 48>>
\* "bob"
V_BOB ==
    <<98, 111, 98>>
\* "Basic"
V_BASIC ==
    <<66, 97, 115, 105, 99>>
\* "HTTP_USER_AGENT"
K_HTTP_USER_AGENT ==
    <<72, 84, 84, 80, 95, 85, 83, 69, 82, 95, 65, 71, 69, 78, 84>>
\* "MyBrowser/1.0"
V_UA ==
    <<77, 121, 66, 114, 111, 119, 115, 101, 114, 47, 49, 46, 48>>
\* " curl/8\t"
V_UA_PADDED ==
    <<32, 99, 117, 114, 108, 47, 56, 9>>
\* "HTTP_ACCEPT"
K_HTTP_ACCEPT ==
    <<72, 84, 84, 80, 95, 65, 67, 67, 69, 80, 84>>
\* "*/*"
V_ACCEPT ==
    <<42, 47, 42>>
\* "HTTP_X_CGI_REMOTE_USER"
K_HTTP_X_CGI_REMOTE_USER ==
    <<72, 84, 84, 80, 95, 88, 95, 67, 71, 73, 95, 82, 69, 77, 79, 84, 69, 95, 85, 83, 69, 82>>
\* "admin"
V_ADMIN ==
    <<97, 100, 109, 105, 110>>
\* "Content-Type"
N_CONTENT_TYPE ==
    <<67, 111, 110, 116, 101, 110, 116, 45, 84, 121, 112, 101>>
\* "Cache-Control"
N_CACHE_CONTROL ==
    <<67, 97, 99, 104, 101, 45, 67, 111, 110, 116, 114, 111, 108>>
\* "set-cookie"
N_SET_COOKIE ==
    <<115, 101, 116, 45, 99, 111, 111, 107, 105, 101>>
\* "a=1"
V_A ==
    <<97, 61, 49>>
\* "b=2"
V_B ==
    <<98, 61, 50>>
\* "image/png"
V_IMAGE_PNG ==
    <<105, 109, 97, 103, 101, 47, 112, 110, 103>>
\* "ABC"
B_ABC ==
    <<65, 66, 67>>
\* "Hello World"
B_HELLO ==
    <<72, 101, 108, 108, 111, 32, 87, 111, 114, 108, 100>>
\* "All good"
B_ALL_GOOD ==
    <<65, 108, 108, 32, 103, 111, 111, 100>>
\* "Not good"
E_NOT_GOOD ==
    <<78, 111, 116, 32, 103, 111, 111, 100>>
\* "no\n"x""
E_TWO_LINES ==
    <<110, 111, 10, 34, 120, 34>>
\* "Status: 500 Internal Server Error\n\n"
S_EMPTY_500 ==
    <<83, 116, 97, 116, 117, 115, 58, 32, 53, 48, 48, 32, 73, 110, 116, 101, 114, 110, 97, 108, 32, 83, 101, 114, 118, 101, 114, 32, 69, 114, 114, 111, 114, 10, 10>>
\* ""
EMPTY ==
    << >>

(***************************************************************************)
(* Text helpers (std::str, std::string).                                   *)
(***************************************************************************)
\* str::starts_with
StartsWith(s, p) ==
    /\ Len(s) >= Len(p)
    /\ SubSeq(s, 1, Len(p)) = p

\* chars().skip(n).collect()
Skip(s, n) ==
    SubSeq(s, n + 1, Len(s))

\* char::is_whitespace on the ASCII range: \t \n \v \f \r and space
IsWhitespace(c) ==
    c \in {9, 10, 11, 12, 13, 32}

RECURSIVE TrimStart(_)
TrimStart(s) ==
    IF s # << >> /\ IsWhitespace(Head(s)) THEN TrimStart(Tail(s)) ELSE s

RECURSIVE TrimEnd(_)
TrimEnd(s) ==
    IF s # << >> /\ IsWhitespace(s[Len(s)])
    THEN TrimEnd(SubSeq(s, 1, Len(s) - 1))
    ELSE s

\* str::trim
Trim(s) ==
    TrimEnd(TrimStart(s))

\* .map(|c| if c == '_' { '-' } else { c }) ; 95 is '_', 45 is '-'
UnderscoreToHyphen(s) ==
    [i \in 1..Len(s) |-> IF s[i] = 95 THEN 45 ELSE s[i]]

\* byte-wise lexicographic order of two strings (Ord for str)
RECURSIVE StrLess(_, _)
StrLess(a, b) ==
    IF b = << >> THEN FALSE
    ELSE IF a = << >> THEN TRUE
    ELSE IF Head(a) # Head(b) THEN Head(a) < Head(b)
    ELSE StrLess(Tail(a), Tail(b))

\* format!("{}", n) of an unsigned integer; 48 is '0'
RECURSIVE ToDecimal(_)
ToDecimal(n) ==
    IF n < 10 THEN <<48 + n>> ELSE Append(ToDecimal(n \div 10), 48 + (n % 10))

IsDigit(c) ==
    c \in 48..57

RECURSIVE DigitsValue(_)
DigitsValue(s) ==
    IF s = << >> THEN 0
    ELSE 10 * DigitsValue(SubSeq(s, 1, Len(s) - 1)) + (s[Len(s)] - 48)

\* the digits of a usize literal: an optional leading '+' (43) is accepted
UsizeDigits(s) ==
    IF s # << >> /\ Head(s) = 43 THEN Tail(s) ELSE s

\* str::parse::<usize>().ok() is Some
ParseUsizeOk(s) ==
    /\ UsizeDigits(s) # << >>
    /\ \A i \in 1..Len(UsizeDigits(s)) : IsDigit(UsizeDigits(s)[i])

\* the value of str::parse::<usize>() when it is Ok
ParseUsize(s) ==
    DigitsValue(UsizeDigits(s))

(***************************************************************************)
(* The http crate, as far as src/lib.rs uses it.                           *)
(***************************************************************************)
\* ASCII lower-casing, as HeaderName does on construction
Lower(c) ==
    IF c \in 65..90 THEN c + 32 ELSE c

ToLower(s) ==
    [i \in 1..Len(s) |-> Lower(s[i])]

\* RFC 7230 token characters: ALPHA, DIGIT and !#$%&'*+-.^_`|~
IsTchar(c) ==
    \/ c \in 48..57
    \/ c \in 65..90
    \/ c \in 97..122
    \/ c \in {33, 35, 36, 37, 38, 39, 42, 43, 45, 46, 94, 95, 96, 124, 126}

IsToken(s) ==
    /\ s # << >>
    /\ \A i \in 1..Len(s) : IsTchar(s[i])

\* HeaderName::try_from(&str) is Ok
ValidHeaderName(name) ==
    IsToken(name)

\* HeaderValue::try_from(&str) is Ok: no control character but \t
ValidHeaderValue(value) ==
    \A i \in 1..Len(value) : (value[i] >= 32 /\ value[i] # 127) \/ value[i] = 9

\* HeaderValue::to_str() is Ok: visible ASCII, space and \t only
VisibleAscii(value) ==
    \A i \in 1..Len(value) : value[i] \in 32..126 \/ value[i] = 9

\* Method::try_from(&str) is Ok
ValidMethod(m) ==
    IsToken(m)

\* Uri::try_from(&str) is Ok, for the origin-form targets CGI produces:
\* not empty, a leading '/', no space, control or non-ASCII byte, no '#'
ValidUri(u) ==
    /\ u # << >>
    /\ Head(u) = 47
    /\ \A i \in 1..Len(u) : u[i] \in 33..126 /\ u[i] # 35

\* A HeaderMap is the sequence of its entries, in the order the names were
\* first inserted; each entry keeps its values in the order they were appended.
EmptyHeaderMap ==
    << >>

HeaderMapNames(map) ==
    {map[i].name : i \in 1..Len(map)}

\* HeaderMap::keys(): every name once, in entry order
HeaderMapKeys(map) ==
    [i \in 1..Len(map) |-> map[i].name]

\* HeaderMap::get_all(name): the values stored under the name, in order
HeaderValues(map, name) ==
    IF name \in HeaderMapNames(map)
    THEN map[CHOOSE i \in 1..Len(map) : map[i].name = name].values
    ELSE << >>

\* HeaderMap::get(name).unwrap(): the first value stored under the name
HeaderMapGet(map, name) ==
    Head(HeaderValues(map, name))

\* HeaderMap::append(name, value)
HeaderMapAppend(map, name, value) ==
    IF name \in HeaderMapNames(map)
    THEN [i \in 1..Len(map) |->
            IF map[i].name = name
            THEN [map[i] EXCEPT !.values = Append(@, value)]
            ELSE map[i]]
    ELSE Append(map, [name |-> name, values |-> <<value>>])

\* the number of values a HeaderMap holds (HeaderMap::len)
RECURSIVE HeaderMapLen(_)
HeaderMapLen(map) ==
    IF map = << >> THEN 0 ELSE Len(Head(map).values) + HeaderMapLen(Tail(map))

\* PartialEq for HeaderMap: the same names, each with the same values in order
HeaderMapEq(m1, m2) ==
    /\ HeaderMapNames(m1) = HeaderMapNames(m2)
    /\ \A n \in HeaderMapNames(m1) : HeaderValues(m1, n) = HeaderValues(m2, n)

\* http::Request::builder(): GET, "/", HTTP/1.1, no header, no error yet
RequestBuilderNew ==
    [method  |-> S_GET,
     uri     |-> <<47>>,
     version |-> "HTTP_11",
     headers |-> EmptyHeaderMap,
     err     |-> "none"]

\* request::Builder::method
BuilderMethod(req, m) ==
    IF req.err # "none" THEN req
    ELSE IF ~ValidMethod(m) THEN [req EXCEPT !.err = "method"]
    ELSE [req EXCEPT !.method = m]

\* request::Builder::uri
BuilderUri(req, u) ==
    IF req.err # "none" THEN req
    ELSE IF ~ValidUri(u) THEN [req EXCEPT !.err = "uri"]
    ELSE [req EXCEPT !.uri = u]

\* request::Builder::version
BuilderVersion(req, v) ==
    IF req.err # "none" THEN req ELSE [req EXCEPT !.version = v]

\* request::Builder::header and response::Builder::header
BuilderHeader(req, name, value) ==
    IF req.err # "none" THEN req
    ELSE IF ~ValidHeaderName(name) \/ ~ValidHeaderValue(value)
         THEN [req EXCEPT !.err = "header"]
    ELSE [req EXCEPT !.headers = HeaderMapAppend(@, ToLower(name), value)]

(***************************************************************************)
(* State.                                                                  *)
(***************************************************************************)
VARIABLES
    env_vars,       \* the meta-variable map (HashMap<String, String>)
    http_keys,      \* the HTTP_ keys in the order env_vars.keys() yields them
    exe,            \* std::env::current_exe() as a string, "" when it fails
    stdin_data,     \* every byte the input stream will ever deliver
    stdin_open,     \* TRUE when the peer never closes the input stream
    consumed,       \* number of bytes read() has taken from the input stream
    reads,          \* number of read() calls issued on the input stream
    mode,           \* "direct" (handle_with_io) or "fallible" (try_handle_with_io)
    pc,             \* the stage the run is in
    content_length, \* the parsed CONTENT_LENGTH
    stdin_contents, \* the body buffer, as far as it is filled
    request,        \* the Request handed to the handler
    result,         \* what the caller's function returned
    builder,        \* a response::Builder under construction
    call,           \* the constructor call that made the response
    response,       \* the Response to serialize
    output,         \* the bytes serialize_response returned
    stdout,         \* bytes written to the output stream
    stderr,         \* bytes written to the diagnostic stream handed in
    eprint,         \* bytes written by eprintln! to the process's stderr
    panic           \* "none", or what aborted the run

vars ==
    <<env_vars, http_keys, exe, stdin_data, stdin_open, consumed, reads, mode,
      pc, content_length, stdin_contents, request, result, builder, call,
      response, output, stdout, stderr, eprint, panic>>

\* what the process is started with
inputVars ==
    <<env_vars, http_keys, exe, stdin_data, stdin_open, mode>>

\* the bounded body reader's state
readVars ==
    <<content_length, stdin_contents, consumed, reads>>

\* what the run has emitted
outVars ==
    <<output, stdout, stderr, eprint>>

NoRequest ==
    [method |-> << >>, uri |-> << >>, version |-> "", headers |-> << >>,
     body |-> << >>]

NoResponse ==
    [status |-> 0, headers |-> << >>, body |-> << >>]

NoCall ==
    [fn |-> "none", status |-> 0, content_type |-> << >>, text |-> << >>]

NoResult ==
    [ok |-> TRUE, resp |-> NoResponse, error |-> << >>]

(***************************************************************************)
(* Request builder.                                                        *)
(***************************************************************************)
\* the fixed (meta-variable, header) table of the sixteen add_header calls
ShadowTable ==
    << <<K_AUTH_TYPE, X_CGI_AUTH_TYPE>>,
       <<K_CONTENT_LENGTH, X_CGI_CONTENT_LENGTH>>,
       <<K_CONTENT_TYPE, X_CGI_CONTENT_TYPE>>,
       <<K_GATEWAY_INTERFACE, X_CGI_GATEWAY_INTERFACE>>,
       <<K_PATH_INFO, X_CGI_PATH_INFO>>,
       <<K_PATH_TRANSLATED, X_CGI_PATH_TRANSLATED>>,
       <<K_QUERY_STRING, X_CGI_QUERY_STRING>>,
       <<K_REMOTE_ADDR, X_CGI_REMOTE_ADDR>>,
       <<K_REMOTE_HOST, X_CGI_REMOTE_HOST>>,
       <<K_REMOTE_IDENT, X_CGI_REMOTE_IDENT>>,
       <<K_REMOTE_USER, X_CGI_REMOTE_USER>>,
       <<K_REQUEST_METHOD, X_CGI_REQUEST_METHOD>>,
       <<K_SCRIPT_NAME, X_CGI_SCRIPT_NAME>>,
       <<K_SERVER_PORT, X_CGI_SERVER_PORT>>,
       <<K_SERVER_PROTOCOL, X_CGI_SERVER_PROTOCOL>>,
       <<K_SERVER_SOFTWARE, X_CGI_SERVER_SOFTWARE>> >>

\* fn exe_url
exe_url ==
    exe

\* fn add_header
add_header(req, env, meta_var, target_header) ==
    IF meta_var \in DOMAIN env
    THEN BuilderHeader(req, target_header, env[meta_var])
    ELSE req

\* the target URI parse_request hands to Builder::uri
RequestUri(env) ==
    LET uri == IF K_SCRIPT_NAME \in DOMAIN env THEN env[K_SCRIPT_NAME] ELSE exe_url
    IN  IF K_QUERY_STRING \in DOMAIN env
        THEN uri \o S_QMARK \o env[K_QUERY_STRING]
        ELSE uri

\* ServerProtocol with an unknown literal coerced to the default version
ServerProtocol_Coerce(req, v) ==
    IF v = S_HTTP_09 THEN BuilderVersion(req, "HTTP_09")
    ELSE IF v = S_HTTP_10 THEN BuilderVersion(req, "HTTP_10")
    ELSE IF v = S_HTTP_20 THEN BuilderVersion(req, "HTTP_2")
    ELSE BuilderVersion(req, "HTTP_11")

\* HttpHeaderName with the underscores left in place
HttpHeaderName_KeepUnderscore(key) ==
    Skip(key, 5)

\* the if/else chain over SERVER_PROTOCOL; the last arm is unimplemented!()
ServerProtocol(req, v) ==
    IF v = S_HTTP_09 THEN BuilderVersion(req, "HTTP_09")
    ELSE IF v = S_HTTP_10 THEN BuilderVersion(req, "HTTP_10")
    ELSE IF v = S_HTTP_11 THEN BuilderVersion(req, "HTTP_11")
    ELSE IF v = S_HTTP_20 THEN BuilderVersion(req, "HTTP_2")
    ELSE [req EXCEPT !.err = "unimplemented"]

\* the header name parse_request derives from an HTTP_ key
HttpHeaderName(key) ==
    UnderscoreToHyphen(Skip(key, 5))

\* the loop over env_vars.keys().filter(|k| k.starts_with("HTTP_"))
RECURSIVE HttpHeaders(_, _, _)
HttpHeaders(req, env, keys) ==
    IF keys = << >> THEN req
    ELSE HttpHeaders(
            BuilderHeader(req, HttpHeaderName(Head(keys)), Trim(env[Head(keys)])),
            env, Tail(keys))

\* the sixteen add_header calls, in table order
RECURSIVE ShadowHeaders(_, _, _)
ShadowHeaders(req, env, i) ==
    IF i > Len(ShadowTable) THEN req
    ELSE ShadowHeaders(
            add_header(req, env, ShadowTable[i][1], ShadowTable[i][2]),
            env, i + 1)

\* the http::Error that Builder::body(..).unwrap() panics with
BuilderError(err) ==
    IF err = "method" THEN "InvalidMethod"
    ELSE IF err = "uri" THEN "InvalidUri"
    ELSE IF err = "status" THEN "InvalidStatusCode"
    ELSE "InvalidHeader"

\* fn parse_request: [panic, req]; panic is "none", "unimplemented" (the
\* unsupported SERVER_PROTOCOL arm) or the error Builder::body(..).unwrap() met
parse_request(env, body) ==
    LET r0 == RequestBuilderNew
        r1 == BuilderMethod(r0, IF K_REQUEST_METHOD \in DOMAIN env
                                THEN env[K_REQUEST_METHOD] ELSE S_GET)
        r2 == BuilderUri(r1, RequestUri(env))
        r3 == IF K_SERVER_PROTOCOL \in DOMAIN env
              THEN ServerProtocol(r2, env[K_SERVER_PROTOCOL])
              ELSE r2
        r4 == HttpHeaders(r3, env, http_keys)
        r5 == ShadowHeaders(r4, env, 1)
    IN  IF r5.err = "unimplemented"
        THEN [panic |-> "unimplemented", req |-> NoRequest]
        ELSE IF r5.err # "none"
        THEN [panic |-> BuilderError(r5.err), req |-> NoRequest]
        ELSE [panic |-> "none",
              req   |-> [method  |-> r5.method,
                         uri     |-> r5.uri,
                         version |-> r5.version,
                         headers |-> r5.headers,
                         body    |-> body]]

(***************************************************************************)
(* Responses: the http response builder and the shortcut constructors.     *)
(***************************************************************************)
\* String::into_bytes: the UTF-8 encoding of a sequence of code points
RECURSIVE Utf8(_)
Utf8(s) ==
    IF s = << >> THEN << >>
    ELSE LET c == Head(s)
             enc == IF c < 128 THEN <<c>>
                    ELSE IF c < 2048 THEN <<192 + (c \div 64), 128 + (c % 64)>>
                    ELSE <<224 + (c \div 4096), 128 + ((c \div 64) % 64),
                           128 + (c % 64)>>
         IN  enc \o Utf8(Tail(s))

\* http::Response::builder(): status 200, no header, no error yet
ResponseBuilderNew ==
    [status |-> 200, headers |-> EmptyHeaderMap, err |-> "none"]

\* response::Builder::status: StatusCode::try_from accepts 100..999
BuilderStatus(b, status_code) ==
    IF b.err # "none" THEN b
    ELSE IF status_code \notin 100..999 THEN [b EXCEPT !.err = "status"]
    ELSE [b EXCEPT !.status = status_code]

\* response::Builder::body(..).unwrap(): [panic, resp]
BuilderBody(b, body) ==
    IF b.err # "none"
    THEN [panic |-> BuilderError(b.err), resp |-> NoResponse]
    ELSE [panic |-> "none",
          resp  |-> [status |-> b.status, headers |-> b.headers, body |-> body]]

\* fn empty_response
empty_response(status_code) ==
    BuilderBody(BuilderStatus(ResponseBuilderNew, status_code), << >>)

\* fn html_response
html_response(status_code, text) ==
    LET body == Utf8(text)
        b1 == BuilderStatus(ResponseBuilderNew, status_code)
        b2 == BuilderHeader(b1, CONTENT_TYPE, S_TEXT_HTML)
        b3 == BuilderHeader(b2, CONTENT_LENGTH, ToDecimal(Len(body)))
    IN  BuilderBody(b3, body)

\* string_response with the length counted in characters, not bytes
string_response_CharCount(status_code, text) ==
    LET body == Utf8(text)
        b1 == BuilderStatus(ResponseBuilderNew, status_code)
        b2 == BuilderHeader(b1, CONTENT_LENGTH, ToDecimal(Len(text)))
    IN  BuilderBody(b2, body)

\* fn string_response
string_response(status_code, text) ==
    LET body == Utf8(text)
        b1 == BuilderStatus(ResponseBuilderNew, status_code)
        b2 == BuilderHeader(b1, CONTENT_LENGTH, ToDecimal(Len(body)))
    IN  BuilderBody(b2, body)

\* fn text_response
text_response(status_code, text) ==
    LET body == Utf8(text)
        b1 == BuilderStatus(ResponseBuilderNew, status_code)
        b2 == BuilderHeader(b1, CONTENT_LENGTH, ToDecimal(Len(body)))
        b3 == BuilderHeader(b2, CONTENT_TYPE, S_TEXT_PLAIN)
    IN  BuilderBody(b3, body)

\* fn binary_response; content_type is << >> for None and <<ct>> for Some(ct)
binary_response(status_code, content_type, body) ==
    LET b1 == BuilderStatus(ResponseBuilderNew, status_code)
        b2 == BuilderHeader(b1, CONTENT_LENGTH, ToDecimal(Len(body)))
        b3 == IF content_type # << >>
              THEN BuilderHeader(b2, CONTENT_TYPE, content_type[1])
              ELSE b2
    IN  BuilderBody(b3, body)

(***************************************************************************)
(* Response serializer.                                                    *)
(***************************************************************************)
\* StatusCode::canonical_reason: << >> for None, <<reason>> for Some(reason)
canonical_reason(status) ==
    IF status = 200 THEN <<S_REASON_200>>
    ELSE IF status = 404 THEN <<S_REASON_404>>
    ELSE IF status = 500 THEN <<S_REASON_500>>
    ELSE << >>

\* one step of the sort: k placed after every key that is not greater
RECURSIVE InsertKey(_, _)
InsertKey(keys, k) ==
    IF keys = << >> THEN <<k>>
    ELSE IF StrLess(k, Head(keys)) THEN <<k>> \o keys
    ELSE <<Head(keys)>> \o InsertKey(Tail(keys), k)

\* the keys left in the order the map yields them
SortKeys_Unsorted(keys) ==
    keys

\* keys.sort_by_key(|h| h.as_str()): a stable sort by the lower-case name
RECURSIVE SortKeys(_)
SortKeys(keys) ==
    IF keys = << >> THEN << >>
    ELSE InsertKey(SortKeys(SubSeq(keys, 1, Len(keys) - 1)), keys[Len(keys)])

\* the value the loop prints for a key: headers.get(key).unwrap()
PrintedValue(headers, key) ==
    HeaderMapGet(headers, key)

\* the header lines, one per key of keys
RECURSIVE HeaderBlock(_, _)
HeaderBlock(headers, keys) ==
    IF keys = << >> THEN << >>
    ELSE Head(keys) \o S_COLON_SP \o PrintedValue(headers, Head(keys)) \o S_NL
         \o HeaderBlock(headers, Tail(keys))

\* fn serialize_response: [panic, out]; to_str().unwrap() panics on a value
\* that is not visible ASCII
serialize_response(resp) ==
    LET reason == canonical_reason(resp.status)
        status_line == S_STATUS \o ToDecimal(resp.status)
                       \o (IF reason # << >> THEN S_SP \o reason[1] ELSE << >>)
                       \o S_NL
        keys == SortKeys(HeaderMapKeys(resp.headers))
    IN  IF \E i \in 1..Len(keys) : ~VisibleAscii(PrintedValue(resp.headers, keys[i]))
        THEN [panic |-> "ToStrError", out |-> << >>]
        ELSE [panic |-> "none",
              out   |-> status_line \o HeaderBlock(resp.headers, keys) \o S_NL
                        \o resp.body]

(***************************************************************************)
(* Inputs.                                                                 *)
(***************************************************************************)
\* every map that gives each key of K one of its candidate values
RECURSIVE MapsOn(_, _)
MapsOn(K, cand) ==
    IF K = {} THEN {<< >>}
    ELSE LET k == CHOOSE x \in K : TRUE
         IN  {(k :> v) @@ m : v \in cand[k], m \in MapsOn(K \ {k}, cand)}

\* the meta-variable maps of at most MaxVars variables over the candidates
Envs(cand) ==
    UNION {MapsOn(K, cand) : K \in {S \in SUBSET DOMAIN cand : Cardinality(S) <= MaxVars}}

\* every order in which a HashMap may yield the keys of S
RECURSIVE Orders(_)
Orders(S) ==
    IF S = {} THEN {<< >>}
    ELSE UNION {{<<k>> \o o : o \in Orders(S \ {k})} : k \in S}

HttpKeys(env) ==
    {k \in DOMAIN env : StartsWith(k, PFX_HTTP)}

\* meta-variables a web server sets for a request (RFC 3875 section 4.1)
RequestCandidates ==
    (K_REQUEST_METHOD :> {S_GET, V_POST})
    @@ (K_SCRIPT_NAME :> {V_SCRIPT})
    @@ (K_QUERY_STRING :> {EMPTY, V_QUERY})
    @@ (K_SERVER_PROTOCOL :> {S_HTTP_09, S_HTTP_10, S_HTTP_11, S_HTTP_20, V_HTTP_30})
    @@ (K_REMOTE_USER :> {V_BOB})
    @@ (K_AUTH_TYPE :> {V_BASIC})
    @@ (K_HTTP_USER_AGENT :> {V_UA, V_UA_PADDED})
    @@ (K_HTTP_ACCEPT :> {V_ACCEPT})
    @@ (K_HTTP_X_CGI_REMOTE_USER :> {V_ADMIN})

(***************************************************************************)
(* parse_request called on its own, as the unit tests call it.             *)
(***************************************************************************)
Idle ==
    /\ consumed = 0
    /\ reads = 0
    /\ content_length = 0
    /\ request = NoRequest
    /\ result = NoResult
    /\ builder = ResponseBuilderNew
    /\ call = NoCall
    /\ response = NoResponse
    /\ output = << >>
    /\ stdout = << >>
    /\ stderr = << >>
    /\ eprint = << >>
    /\ panic = "none"

InitReq ==
    /\ env_vars \in Envs(RequestCandidates)
    /\ http_keys \in Orders(HttpKeys(env_vars))
    /\ exe \in {V_EXE, EMPTY}
    /\ stdin_data = << >>
    /\ stdin_open = FALSE
    /\ mode = "direct"
    /\ stdin_contents \in {<< >>, <<65, 66>>}
    /\ pc = "BuildingRequest"
    /\ Idle

\* let request = parse_request(env_vars, stdin_contents);
ParseRequest ==
    /\ pc = "BuildingRequest"
    /\ LET r == parse_request(env_vars, stdin_contents)
       IN  /\ panic' = r.panic
           /\ request' = r.req
           /\ pc' = IF r.panic = "none" THEN "InvokingHandler" ELSE "Aborted"
    /\ UNCHANGED <<inputVars, readVars, result, builder, call, response,
                   outVars>>

NextReq ==
    ParseRequest

SpecReq ==
    InitReq /\ [][NextReq]_vars
(***************************************************************************)
(* A response built by the caller: builder calls or a shortcut, then       *)
(* serialize_response, as the unit tests call them.                        *)
(***************************************************************************)
StatusCodes ==
    {200, 299, 500, 1000}

\* bodies given as text (code points): "", "ABC", "e-acute !", "Hello World"
Texts ==
    {EMPTY, B_ABC, <<233, 33>>, B_HELLO}

\* bodies given as bytes
Blobs ==
    {EMPTY, B_ABC, B_HELLO}

\* Option<&str> content types: None, Some("image/png")
ContentTypes ==
    {<< >>, <<V_IMAGE_PNG>>}

\* header(name, value) calls a caller makes; <<233>> is a value that is not
\* visible ASCII (obs-text)
HeaderCalls ==
    {<<N_CONTENT_TYPE, V_A>>, <<N_CACHE_CONTROL, V_A>>, <<N_SET_COOKIE, V_A>>,
     <<N_SET_COOKIE, V_B>>, <<N_CACHE_CONTROL, <<233>>>>}

InitSer ==
    /\ env_vars = << >>
    /\ http_keys = << >>
    /\ exe = V_EXE
    /\ stdin_data = << >>
    /\ stdin_open = FALSE
    /\ mode = "direct"
    /\ stdin_contents = << >>
    /\ pc = "ResponseBuilder"
    /\ Idle

\* the response a constructor call returned, or the panic it ended in
Constructed(r, c) ==
    /\ call' = c
    /\ panic' = r.panic
    /\ response' = r.resp
    /\ pc' = IF r.panic = "none" THEN "Serializing" ELSE "Aborted"
    /\ UNCHANGED <<inputVars, readVars, request, result, builder, outVars>>

\* http::Response::builder().status(status_code)
ResponseStatus ==
    /\ pc = "ResponseBuilder"
    /\ call.fn = "none"
    /\ \E status_code \in StatusCodes :
          /\ builder' = BuilderStatus(builder, status_code)
          /\ call' = [NoCall EXCEPT !.fn = "builder", !.status = status_code]
    /\ UNCHANGED <<inputVars, readVars, request, result, response, outVars,
                   pc, panic>>

\* .header(name, value)
ResponseHeader ==
    /\ pc = "ResponseBuilder"
    /\ call.fn \in {"none", "builder"}
    /\ HeaderMapLen(builder.headers) < MaxHeaders
    /\ \E h \in HeaderCalls :
          builder' = BuilderHeader(builder, h[1], h[2])
    /\ call' = [call EXCEPT !.fn = "builder"]
    /\ UNCHANGED <<inputVars, readVars, request, result, response, outVars,
                   pc, panic>>

\* .body(body).unwrap()
ResponseBody ==
    /\ pc = "ResponseBuilder"
    /\ call.fn = "builder"
    /\ \E body \in Blobs :
          Constructed(BuilderBody(builder, body), call)

EmptyResponse ==
    /\ pc = "ResponseBuilder"
    /\ call.fn = "none"
    /\ \E s \in StatusCodes :
          Constructed(empty_response(s),
                      [NoCall EXCEPT !.fn = "empty_response", !.status = s])

HtmlResponse ==
    /\ pc = "ResponseBuilder"
    /\ call.fn = "none"
    /\ \E s \in StatusCodes, t \in Texts :
          Constructed(html_response(s, t),
                      [NoCall EXCEPT !.fn = "html_response", !.status = s,
                                     !.text = t])

StringResponse ==
    /\ pc = "ResponseBuilder"
    /\ call.fn = "none"
    /\ \E s \in StatusCodes, t \in Texts :
          Constructed(string_response(s, t),
                      [NoCall EXCEPT !.fn = "string_response", !.status = s,
                                     !.text = t])

TextResponse ==
    /\ pc = "ResponseBuilder"
    /\ call.fn = "none"
    /\ \E s \in StatusCodes, t \in Texts :
          Constructed(text_response(s, t),
                      [NoCall EXCEPT !.fn = "text_response", !.status = s,
                                     !.text = t])

BinaryResponse ==
    /\ pc = "ResponseBuilder"
    /\ call.fn = "none"
    /\ \E s \in StatusCodes, ct \in ContentTypes, b \in Blobs :
          Constructed(binary_response(s, ct, b),
                      [NoCall EXCEPT !.fn = "binary_response", !.status = s,
                                     !.content_type = ct, !.text = b])

\* let output = serialize_response(response);
Serialize ==
    /\ pc = "Serializing"
    /\ LET s == serialize_response(response)
       IN  /\ panic' = s.panic
           /\ output' = s.out
           /\ pc' = IF s.panic = "none" THEN "WritingOutput" ELSE "Aborted"
    /\ UNCHANGED <<inputVars, readVars, request, result, builder, response,
                   call, stdout, stderr, eprint>>

NextSer ==
    \/ ResponseStatus
    \/ ResponseHeader
    \/ ResponseBody
    \/ EmptyResponse
    \/ HtmlResponse
    \/ StringResponse
    \/ TextResponse
    \/ BinaryResponse
    \/ Serialize

SpecSer ==
    InitSer /\ [][NextSer]_vars

(***************************************************************************)
(* The orchestrator: handle_with_io and try_handle_with_io.                *)
(***************************************************************************)
\* the CONTENT_LENGTH values a server or a test environment may set:
\* "", "0", "1", "2", "4", "+1", "-1", "2x"
ContentLengths ==
    {EMPTY, <<48>>, <<49>>, <<50>>, <<52>>, <<43, 49>>, <<45, 49>>, <<50, 120>>}

PipelineCandidates ==
    (K_CONTENT_LENGTH :> ContentLengths)
    @@ (K_SERVER_PROTOCOL :> {S_HTTP_11, V_HTTP_30})
    @@ (K_REQUEST_METHOD :> {V_POST})
    @@ (K_HTTP_USER_AGENT :> {V_UA})

\* the input streams: "", "A", "AB", ... up to MaxStdin bytes
StdinStreams ==
    {[i \in 1..n |-> 64 + i] : n \in 0..MaxStdin}

\* a response assembled with the builder: two Set-Cookie values and a type
CookieResponse ==
    BuilderBody(
        BuilderHeader(
            BuilderHeader(
                BuilderHeader(ResponseBuilderNew, N_SET_COOKIE, V_A),
                N_CONTENT_TYPE, V_IMAGE_PNG),
            N_SET_COOKIE, V_B),
        B_ABC).resp

\* a response with a header value that is not visible ASCII
OpaqueResponse ==
    BuilderBody(BuilderHeader(ResponseBuilderNew, N_CACHE_CONTROL, <<233>>),
                EMPTY).resp

\* what a caller's function may return as a Response
HandlerResponses ==
    {text_response(200, B_ALL_GOOD).resp, empty_response(404).resp,
     CookieResponse, OpaqueResponse}

\* what a caller's function may return as an error (E = String)
HandlerErrors ==
    {E_NOT_GOOD, E_TWO_LINES}

Ok(resp) ==
    [ok |-> TRUE, resp |-> resp, error |-> << >>]

Err(e) ==
    [ok |-> FALSE, resp |-> NoResponse, error |-> e]

\* <str as Debug>::fmt: quoted, with '"', '\', \n, \r and \t escaped
RECURSIVE EscapeDebug(_)
EscapeDebug(s) ==
    IF s = << >> THEN << >>
    ELSE LET c == Head(s)
             e == IF c = 34 THEN <<92, 34>>
                  ELSE IF c = 92 THEN <<92, 92>>
                  ELSE IF c = 10 THEN <<92, 110>>
                  ELSE IF c = 13 THEN <<92, 114>>
                  ELSE IF c = 9 THEN <<92, 116>>
                  ELSE <<c>>
         IN  e \o EscapeDebug(Tail(s))

\* the error formatted with {} in place of {:?}
DebugFmt_Display(err) ==
    err

\* format!("{:?}", err) for a string error
DebugFmt(err) ==
    <<34>> \o EscapeDebug(err) \o <<34>>

\* what writeln!(stderr, "{:?}", err) writes
DebugLine(err) ==
    DebugFmt(err) \o S_NL

\* the leading digits of s
RECURSIVE LeadingDigits(_)
LeadingDigits(s) ==
    IF s # << >> /\ IsDigit(Head(s)) THEN <<Head(s)>> \o LeadingDigits(Tail(s))
    ELSE << >>

\* ContentLength reading the leading digits, as atoi does
ContentLength_Atoi(env) ==
    IF K_CONTENT_LENGTH \in DOMAIN env
    THEN DigitsValue(LeadingDigits(env[K_CONTENT_LENGTH]))
    ELSE 0

\* the body length handle_with_io reads: CONTENT_LENGTH parsed as usize, or 0
ContentLength(env) ==
    IF K_CONTENT_LENGTH \in DOMAIN env /\ ParseUsizeOk(env[K_CONTENT_LENGTH])
    THEN ParseUsize(env[K_CONTENT_LENGTH])
    ELSE 0

\* ReadSizes of a read that takes whatever the stream holds
ReadSizes_Unbounded(wanted, filled, available) ==
    1..available

\* how many bytes one read() call may take: at least one, at most what the
\* buffer still lacks and what the stream still holds
ReadSizes(wanted, filled, available) ==
    1..(IF wanted - filled < available THEN wanted - filled ELSE available)

Init ==
    /\ env_vars \in Envs(PipelineCandidates)
    /\ http_keys \in Orders(HttpKeys(env_vars))
    /\ exe = V_EXE
    /\ stdin_data \in StdinStreams
    /\ stdin_open \in BOOLEAN
    /\ mode \in {"direct", "fallible"}
    /\ stdin_contents = << >>
    /\ pc = "Start"
    /\ Idle

\* lines 72-81: collect the environment, parse CONTENT_LENGTH, allocate
ReadEnv ==
    /\ pc = "Start"
    /\ content_length' = ContentLength(env_vars)
    /\ stdin_contents' = << >>
    /\ pc' = "ReadingBody"
    /\ UNCHANGED <<inputVars, consumed, reads, request, result, builder,
                   response, call, outVars, panic>>

\* read_exact: one read() call that returns n > 0 bytes
ReadSome ==
    /\ pc = "ReadingBody"
    /\ Len(stdin_contents) < content_length
    /\ \E n \in ReadSizes(content_length, Len(stdin_contents),
                          Len(stdin_data) - consumed) :
          /\ stdin_contents' =
                stdin_contents \o SubSeq(stdin_data, consumed + 1, consumed + n)
          /\ consumed' = consumed + n
    /\ reads' = reads + 1
    /\ UNCHANGED <<inputVars, content_length, pc, request, result, builder,
                   response, call, outVars, panic>>

\* a read that gives up at end of stream and hands on the buffer as it is,
\* zero-filled past the bytes received
ReadEof_Ignore ==
    /\ pc = "ReadingBody"
    /\ Len(stdin_contents) < content_length
    /\ consumed = Len(stdin_data)
    /\ ~stdin_open
    /\ reads' = reads + 1
    /\ stdin_contents' =
          stdin_contents
          \o [i \in 1..(content_length - Len(stdin_contents)) |-> 0]
    /\ pc' = "BuildingRequest"
    /\ UNCHANGED <<inputVars, content_length, consumed, request, result,
                   builder, response, call, outVars, panic>>

\* read_exact: read() returns 0 at end of stream, so UnexpectedEof, and
\* unwrap() panics
ReadEof ==
    /\ pc = "ReadingBody"
    /\ Len(stdin_contents) < content_length
    /\ consumed = Len(stdin_data)
    /\ ~stdin_open
    /\ reads' = reads + 1
    /\ pc' = "Aborted"
    /\ panic' = "UnexpectedEof"
    /\ UNCHANGED <<inputVars, content_length, stdin_contents, consumed, request,
                   result, builder, response, call, outVars>>

\* read_exact returns Ok(()) once the buffer is full
ReadDone ==
    /\ pc = "ReadingBody"
    /\ Len(stdin_contents) = content_length
    /\ pc' = "BuildingRequest"
    /\ UNCHANGED <<inputVars, readVars, request, result, builder, response,
                   call, outVars, panic>>

\* let response = func(request); in handle_with_io called directly
CallHandler ==
    /\ pc = "InvokingHandler"
    /\ mode = "direct"
    /\ \E resp \in HandlerResponses :
          /\ result' = Ok(resp)
          /\ response' = resp
    /\ pc' = "Serializing"
    /\ UNCHANGED <<inputVars, readVars, request, builder, call, outVars, panic>>

\* the closure of try_handle_with_io: the response on Ok; on Err the debug
\* line on stderr, or through eprintln! when that write fails (a failed
\* write is taken to have written nothing), and empty_response(500)
CallTryHandler ==
    /\ pc = "InvokingHandler"
    /\ mode = "fallible"
    /\ \E r \in {Ok(resp) : resp \in HandlerResponses}
                \cup {Err(e) : e \in HandlerErrors},
          stderr_ok \in BOOLEAN :
          /\ result' = r
          /\ IF r.ok
             THEN /\ response' = r.resp
                  /\ UNCHANGED <<stderr, eprint>>
             ELSE /\ response' = empty_response(500).resp
                  /\ IF stderr_ok
                     THEN /\ stderr' = stderr \o DebugLine(r.error)
                          /\ UNCHANGED eprint
                     ELSE /\ eprint' = eprint \o DebugLine(r.error)
                          /\ UNCHANGED stderr
    /\ pc' = "Serializing"
    /\ UNCHANGED <<inputVars, readVars, request, builder, call, output, stdout,
                   panic>>

\* stdout.write_all(&output).unwrap(): the whole output, or a panic after
\* a part of it went out (nothing, the first byte, or all but the last)
WriteOutput ==
    /\ pc = "WritingOutput"
    /\ \E write_ok \in BOOLEAN :
          IF write_ok
          THEN /\ stdout' = stdout \o output
               /\ pc' = "Terminal"
               /\ UNCHANGED panic
          ELSE /\ \E n \in {0, 1, Len(output) - 1} :
                     stdout' = stdout \o SubSeq(output, 1, n)
               /\ pc' = "Aborted"
               /\ panic' = "WriteError"
    /\ UNCHANGED <<inputVars, readVars, request, result, builder, response,
                   call, output, stderr, eprint>>

Next ==
    \/ ReadEnv
    \/ ReadSome
    \/ ReadEof
    \/ ReadDone
    \/ ParseRequest
    \/ CallHandler
    \/ CallTryHandler
    \/ Serialize
    \/ WriteOutput

Spec ==
    Init /\ [][Next]_vars

\* the runs whose environment sets at most CONTENT_LENGTH and
\* SERVER_PROTOCOL, on an input stream of at most one byte
InitFair ==
    /\ env_vars \in Envs((K_CONTENT_LENGTH :> ContentLengths)
                          @@ (K_SERVER_PROTOCOL :> {V_HTTP_30}))
    /\ http_keys = << >>
    /\ exe = V_EXE
    /\ stdin_data \in {<< >>, <<65>>}
    /\ stdin_open \in BOOLEAN
    /\ mode \in {"direct", "fallible"}
    /\ stdin_contents = << >>
    /\ pc = "Start"
    /\ Idle

\* the program runs on: a step that can be taken is eventually taken
FairSpec ==
    InitFair /\ [][Next]_vars /\ WF_vars(Next)

(***************************************************************************)
(* Claims about the request builder, checked under SpecReq.                *)
(***************************************************************************)
Built ==
    pc = "InvokingHandler"

Has(env, k) ==
    k \in DOMAIN env

\* C1 (as stated): when QUERY_STRING is absent or empty the target equals
\* SCRIPT_NAME verbatim; '?' and the query are appended only when
\* QUERY_STRING is present and not empty.
C1_NoQuestionMarkForEmptyQuery ==
    (Built /\ Has(env_vars, K_SCRIPT_NAME)) =>
        IF Has(env_vars, K_QUERY_STRING) /\ env_vars[K_QUERY_STRING] # EMPTY
        THEN request.uri = env_vars[K_SCRIPT_NAME] \o <<63>> \o env_vars[K_QUERY_STRING]
        ELSE request.uri = env_vars[K_SCRIPT_NAME]

\* C2 (as stated): the request carries a header of the X-CGI- shadow list
\* only if its meta-variable is present, and every value of that header is
\* the meta-variable's value, whatever HTTP_ variables the map holds.
C2_ShadowHeaderOnlyFromItsVariable ==
    Built =>
        \A i \in 1..Len(ShadowTable) :
            LET h == ToLower(ShadowTable[i][2])
                vs == HeaderValues(request.headers, h)
            IN  h \in HeaderMapNames(request.headers) =>
                    /\ Has(env_vars, ShadowTable[i][1])
                    /\ \A j \in 1..Len(vs) : vs[j] = env_vars[ShadowTable[i][1]]

\* t is v without its leading and trailing whitespace
IsTrimOf(t, v) ==
    \E i \in 1..(Len(v) + 1), j \in 0..Len(v) :
        /\ t = SubSeq(v, i, j)
        /\ \A a \in 1..(i - 1) : IsWhitespace(v[a])
        /\ \A b \in (j + 1)..Len(v) : IsWhitespace(v[b])
        /\ t # << >> => ~IsWhitespace(t[1]) /\ ~IsWhitespace(t[Len(t)])

\* n is the header name of the HTTP_ key k: prefix dropped, '_' as '-',
\* compared without regard to case
IsHeaderNameOf(n, k) ==
    /\ Len(n) = Len(k) - 5
    /\ \A i \in 1..Len(n) :
          n[i] = (IF k[i + 5] = 95 THEN 45 ELSE Lower(k[i + 5]))

C10_ServerProtocolMapping ==
    pc # "BuildingRequest" =>
        IF Has(env_vars, K_SERVER_PROTOCOL)
        THEN LET v == env_vars[K_SERVER_PROTOCOL]
             IN  IF v \in {S_HTTP_09, S_HTTP_10, S_HTTP_11, S_HTTP_20}
                 THEN /\ panic # "unimplemented"
                      /\ Built => request.version =
                            (IF v = S_HTTP_09 THEN "HTTP_09"
                             ELSE IF v = S_HTTP_10 THEN "HTTP_10"
                             ELSE IF v = S_HTTP_11 THEN "HTTP_11"
                             ELSE "HTTP_2")
                 ELSE /\ pc = "Aborted"
                      /\ panic = "unimplemented"
                      /\ request = NoRequest
        ELSE /\ panic # "unimplemented"
             /\ Built => request.version = "HTTP_11"

C10_Witness ==
    /\ pc = "Aborted"
    /\ Has(env_vars, K_SERVER_PROTOCOL)
    /\ env_vars[K_SERVER_PROTOCOL] = V_HTTP_30
(***************************************************************************)
(* Claims about the serializer and the constructors, checked under SpecSer.*)
(***************************************************************************)
Serialized ==
    pc = "WritingOutput"

\* the positions of the \n bytes of out up to the first blank line
HeadBreaks(out) ==
    LET nl == {i \in 1..Len(out) : out[i] = 10}
        blank == CHOOSE i \in nl :
                    (i + 1) \in nl /\ \A j \in nl : j < i => (j + 1) \notin nl
    IN  {i \in nl : i <= blank}

\* the k-th smallest member of a set of numbers
Nth(S, k) ==
    CHOOSE b \in S : Cardinality({x \in S : x <= b}) = k

\* the lines of out between the status line and the first blank line
HeaderLinesOf(out) ==
    LET hb == HeadBreaks(out)
    IN  [k \in 1..(Cardinality(hb) - 1) |->
            SubSeq(out, Nth(hb, k) + 1, Nth(hb, k + 1) - 1)]

\* the bytes of out after the first blank line
BodyOf(out) ==
    LET hb == HeadBreaks(out)
    IN  SubSeq(out, Nth(hb, Cardinality(hb)) + 2, Len(out))

\* the part of a header line before its first ':'
LineName(line) ==
    LET c == CHOOSE k \in 1..Len(line) :
                line[k] = 58 /\ \A j \in 1..(k - 1) : line[j] # 58
    IN  SubSeq(line, 1, c - 1)

\* C3 (as stated): the output holds a line "<name>: <value>" for every value
\* stored under every header name, so the header lines are as many as the
\* header values of the response.
C3_OneLinePerHeaderValue ==
    Serialized =>
        LET lines == HeaderLinesOf(output)
        IN  /\ Len(lines) = HeaderMapLen(response.headers)
            /\ \A e \in 1..Len(response.headers) :
                  \A j \in 1..Len(response.headers[e].values) :
                      \E i \in 1..Len(lines) :
                          lines[i] = response.headers[e].name \o <<58, 32>>
                                     \o response.headers[e].values[j]

\* the (name, value) pairs of a header map, entry by entry
RECURSIVE Flatten(_)
Flatten(map) ==
    IF map = << >> THEN << >>
    ELSE [j \in 1..Len(Head(map).values) |-> <<Head(map).name, Head(map).values[j]>>]
         \o Flatten(Tail(map))

\* the header map that appending the pairs of seq in the order ord builds
RECURSIVE Inserted(_, _)
Inserted(seq, ord) ==
    IF ord = << >> THEN EmptyHeaderMap
    ELSE HeaderMapAppend(Inserted(seq, SubSeq(ord, 1, Len(ord) - 1)),
                         seq[ord[Len(ord)]][1], seq[ord[Len(ord)]][2])

IsDecimalOf(d, n) ==
    /\ d # << >>
    /\ \A i \in 1..Len(d) : d[i] \in 48..57
    /\ Len(d) > 1 => d[1] # 48
    /\ DigitsValue(d) = n

\* the values of the header lines of out that carry the name
LineValues(out, name) ==
    LET lines == HeaderLinesOf(out)
    IN  {SubSeq(lines[i], Len(name) + 3, Len(lines[i])) :
            i \in {k \in 1..Len(lines) : LineName(lines[k]) = name}}

\* out has exactly one content-length line and it gives the byte length of
\* the body that follows the blank line
HasExactContentLength(out) ==
    /\ Cardinality(LineValues(out, CONTENT_LENGTH)) = 1
    /\ \A d \in LineValues(out, CONTENT_LENGTH) : IsDecimalOf(d, Len(BodyOf(out)))

Shortcuts ==
    {"empty_response", "html_response", "string_response", "text_response",
     "binary_response"}

\* C9 (as stated): the output of every shortcut constructor, empty_response
\* included, has a content-length line equal to the byte length of the
\* body; binary_response without a content type omits content-type.
C9_EveryShortcutSetsContentLength ==
    (Serialized /\ call.fn \in Shortcuts) =>
        /\ HasExactContentLength(output)
        /\ (call.fn = "binary_response" /\ call.content_type = << >>) =>
              LineValues(output, CONTENT_TYPE) = {}

\* C9 (amended): html_response, string_response, text_response and
\* binary_response give a content-length line equal to the byte length of
\* the body, binary_response without a content type omits content-type, and
\* empty_response gives no header line at all.
C9_ShortcutsButEmptySetContentLength ==
    (Serialized /\ call.fn \in Shortcuts) =>
        /\ BodyOf(output) = (IF call.fn = "binary_response" THEN call.text
                             ELSE IF call.fn = "empty_response" THEN << >>
                             ELSE Utf8(call.text))
        /\ IF call.fn = "empty_response"
           THEN HeaderLinesOf(output) = << >>
           ELSE HasExactContentLength(output)
        /\ call.fn = "binary_response" =>
              LineValues(output, CONTENT_TYPE) =
                  {call.content_type[i] : i \in 1..Len(call.content_type)}

C9_Witness ==
    /\ Serialized
    /\ call.fn = "binary_response"
    /\ call.content_type = << >>
    /\ Len(response.body) > 9

(***************************************************************************)
(* Claims about the orchestrator, checked under Spec and FairSpec.         *)
(***************************************************************************)
\* s is a run of decimal digits
IsNumeral(s) ==
    /\ s # << >>
    /\ \A i \in 1..Len(s) : s[i] \in 48..57

\* the request has been built and handed on
RequestBuilt ==
    pc \in {"InvokingHandler", "Serializing", "WritingOutput", "Terminal"}
    \/ (pc = "Aborted" /\ panic \in {"ToStrError", "WriteError"})

\* C5: with CONTENT_LENGTH = N the run never takes more than N bytes from
\* the input stream, has taken exactly the first N once the read is over,
\* hands exactly those bytes to the handler as the body, and aborts in the
\* read, with no request built, when the stream ends before N bytes.
C5_ExactBoundedRead ==
    pc # "Start" =>
        /\ (Has(env_vars, K_CONTENT_LENGTH) /\ IsNumeral(env_vars[K_CONTENT_LENGTH]))
              => content_length = DigitsValue(env_vars[K_CONTENT_LENGTH])
        /\ consumed <= content_length
        /\ stdin_contents = SubSeq(stdin_data, 1, consumed)
        /\ (pc # "ReadingBody" /\ panic # "UnexpectedEof") =>
              consumed = content_length
        /\ RequestBuilt => request.body = SubSeq(stdin_data, 1, content_length)
        /\ Len(stdin_data) < content_length =>
              /\ pc \in {"ReadingBody", "Aborted"}
              /\ pc = "Aborted" => (panic = "UnexpectedEof" /\ ~stdin_open)
              /\ request = NoRequest
              /\ stdout = << >>

C5_Witness ==
    /\ pc = "Terminal"
    /\ Has(env_vars, K_CONTENT_LENGTH)
    /\ env_vars[K_CONTENT_LENGTH] = <<50>>
    /\ Len(stdin_data) = 3
    /\ reads = 2
    /\ request.body = <<65, 66>>

\* CONTENT_LENGTH is absent, or is not an unsigned decimal (digits after an
\* optional '+'), or is such a decimal of value 0
ZeroLength ==
    \/ ~Has(env_vars, K_CONTENT_LENGTH)
    \/ LET s == env_vars[K_CONTENT_LENGTH]
           d == IF s # << >> /\ s[1] = 43 THEN SubSeq(s, 2, Len(s)) ELSE s
       IN  ~IsNumeral(d) \/ DigitsValue(d) = 0

\* the run is over and the body read is not what ended it
EndedPastTheRead ==
    \/ pc = "Terminal" /\ stdout = output /\ output # << >>
    \/ pc = "Aborted" /\ panic # "UnexpectedEof"

\* C6: when CONTENT_LENGTH is 0, absent, empty or no unsigned integer, the
\* body length is 0 and the read neither fails nor issues a single read on
\* the input stream, so the run goes on to its end (the response written,
\* unless a later stage aborts) even on an empty stream that is never closed.
C6_ZeroLengthNeverWaits ==
    (ZeroLength /\ pc = "Start") ~>
        /\ EndedPastTheRead
        /\ content_length = 0
        /\ reads = 0
        /\ consumed = 0
        /\ RequestBuilt => request.body = << >>

C6_Witness ==
    /\ pc = "Terminal"
    /\ stdout # << >>
    /\ Has(env_vars, K_CONTENT_LENGTH)
    /\ env_vars[K_CONTENT_LENGTH] = <<50, 120>>
    /\ stdin_data = << >>
    /\ stdin_open

\* "\"Not good\"\n", the diagnostic line of the unit test
Q_NOT_GOOD_LINE ==
    <<34>> \o E_NOT_GOOD \o <<34, 10>>

\* s is one line: it ends in \n and holds no other \n
IsOneLine(s) ==
    /\ s # << >>
    /\ s[Len(s)] = 10
    /\ \A i \in 1..(Len(s) - 1) : s[i] # 10

\* C7: in fallible mode a handler failure puts exactly one line, the debug
\* form of the value and a newline, on the diagnostic stream (through
\* eprintln! when the stream handed in cannot be written) and what reaches
\* stdout is the serialization of the fixed empty 500 response; a handler
\* response is serialized as it is and nothing goes to the diagnostic stream.
C7_FailureBecomesEmpty500 ==
    mode = "fallible" =>
        IF result = NoResult
        THEN stderr = << >> /\ eprint = << >> /\ stdout = << >>
        ELSE IF result.ok
        THEN /\ stderr = << >>
             /\ eprint = << >>
             /\ response = result.resp
             /\ pc = "Terminal" => stdout = serialize_response(result.resp).out
        ELSE /\ stderr = << >> \/ eprint = << >>
             /\ stderr \o eprint = DebugLine(result.error)
             /\ IsOneLine(stderr \o eprint)
             /\ result.error = E_NOT_GOOD => stderr \o eprint = Q_NOT_GOOD_LINE
             /\ response = [status |-> 500, headers |-> << >>, body |-> << >>]
             /\ pc \in {"WritingOutput", "Terminal"} => output = S_EMPTY_500
             /\ pc = "Terminal" => stdout = S_EMPTY_500

C7_Witness ==
    /\ pc = "Terminal"
    /\ mode = "fallible"
    /\ ~result.ok
    /\ result.error = E_TWO_LINES
    /\ stderr # << >>
    /\ stdout = S_EMPTY_500

\* the stage that follows p when p succeeds; the two final stages have none
NextStage(p) ==
    CASE p = "Start" -> "ReadingBody"
      [] p = "ReadingBody" -> "BuildingRequest"
      [] p = "BuildingRequest" -> "InvokingHandler"
      [] p = "InvokingHandler" -> "Serializing"
      [] p = "Serializing" -> "WritingOutput"
      [] p = "WritingOutput" -> "Terminal"
      [] OTHER -> p

\* the handler has been called and has returned
HandlerReturned ==
    result # NoResult

\* SERVER_PROTOCOL is set and is none of the four literals
UnsupportedProtocol ==
    /\ Has(env_vars, K_SERVER_PROTOCOL)
    /\ env_vars[K_SERVER_PROTOCOL] \notin {S_HTTP_09, S_HTTP_10, S_HTTP_11, S_HTTP_20}

\* the input stream holds fewer bytes than the body length asks for
ShortBody ==
    pc # "Start" /\ Len(stdin_data) < content_length

\* one step of a run, as the pipeline allows it
PipelineStep ==
    /\ pc' # pc =>
          /\ pc \notin {"Terminal", "Aborted"}
          /\ pc' \in {NextStage(pc), "Aborted"}
    /\ pc' = pc => pc = "ReadingBody"
    /\ result' # result =>
          /\ result = NoResult
          /\ pc = "InvokingHandler" /\ pc' = "Serializing"
          /\ consumed = content_length
          /\ request # NoRequest
          /\ request.body = stdin_contents
          /\ panic = "none"
          /\ stdout = << >>
    /\ stdout' # stdout =>
          /\ stdout = << >>
          /\ pc = "WritingOutput" /\ pc' \in {"Terminal", "Aborted"}
          /\ HandlerReturned
    /\ (stderr' # stderr \/ eprint' # eprint) =>
          /\ pc = "InvokingHandler"
          /\ mode = "fallible"
    /\ request' # request => pc = "BuildingRequest" /\ request = NoRequest
    /\ output' # output => pc = "Serializing" /\ output = << >>

\* where a run stands tells what has happened in it so far
PipelineState ==
    /\ (pc = "Aborted") = (panic # "none")
    /\ HandlerReturned =
          (\/ pc \in {"Serializing", "WritingOutput", "Terminal"}
           \/ pc = "Aborted" /\ panic \in {"ToStrError", "WriteError"})
    /\ stdout # << >> =>
          /\ pc = "Terminal" \/ (pc = "Aborted" /\ panic = "WriteError")
          /\ Len(stdout) <= Len(output)
          /\ stdout = SubSeq(output, 1, Len(stdout))
    /\ pc = "Terminal" => stdout = output /\ output # << >>
    /\ ShortBody =>
          /\ pc \in {"ReadingBody", "Aborted"}
          /\ pc = "Aborted" => panic = "UnexpectedEof"
          /\ ~HandlerReturned
          /\ stdout = << >>
    /\ UnsupportedProtocol =>
          /\ pc \in {"Start", "ReadingBody", "BuildingRequest", "Aborted"}
          /\ pc = "Aborted" => panic \in {"UnexpectedEof", "unimplemented"}
          /\ (pc = "Aborted" /\ ~ShortBody) => panic = "unimplemented"
          /\ ~HandlerReturned
          /\ stdout = << >>
    /\ panic \notin {"none", "ToStrError", "WriteError"} =>
          ~HandlerReturned /\ stdout = << >>

\* C11: a run only ever moves from a stage to the next one or to the abort,
\* staying put only while it reads the body; the handler is called at most
\* once, and only with the body read in full and the request built; stdout
\* is written at most once, and only after the handler has returned; and a
\* run whose body falls short or whose SERVER_PROTOCOL is unsupported gets
\* no further than the abort of that stage, with the handler never called
\* and stdout empty.
C11_LinearPipeline ==
    /\ []PipelineState
    /\ [][PipelineStep]_vars

C11_Witness ==
    /\ pc = "Aborted"
    /\ panic = "unimplemented"
    /\ UnsupportedProtocol
    /\ content_length = 2
    /\ reads = 2
    /\ stdin_contents = <<65, 66>>
    /\ ~HandlerReturned
    /\ stdout = << >>
====
